---- MODULE Spec2Model ----
(***************************************************************************)
(* The learn command of the CRFsuite frontend (frontend/learn.c).          *)
(*                                                                         *)
(* main_learn is modelled as a sequential state machine: one action per    *)
(* step of the function, pc naming the position.  The collaborators        *)
(* (option_parse, crf_create_instance, the parameter store, fopen,         *)
(* read_data, the trainer) are the environment: their results are drawn    *)
(* from small sets, and every call is appended to log, the trace of what   *)
(* the function did to the outside world.                                  *)
(*                                                                         *)
(* A C string is a sequence of symbols.  The strings the code looks into   *)
(* (the -p and -t arguments) are sequences of one-character symbols; the   *)
(* strings it only copies (paths, names) are one opaque symbol.            *)
(***************************************************************************)
EXTENDS Integers, Sequences, FiniteSets, TLC

VARIABLES
    opts,       \* input: the option part of argv, one entry per flag
    files,      \* input: the positional part of argv (argv[arg_used..argc-1])
    pc,         \* position in main_learn
    opt,        \* learn_option_t opt
    heap,       \* the malloc'ed strings: heap[p] is the block at pointer p
    optind,     \* option_parse: number of option entries consumed
    arg_used,   \* main_learn: arg_used
    i,          \* main_learn: i
    ret,        \* main_learn: ret
    res,        \* main_learn: the handles attrs, labels, trainer
    objs,       \* per resource: how often it was created and released
    data,       \* crf_data_t data: the group id of every instance
    stdinOpen,  \* whether the stdin stream is still open
    log         \* the calls made and the lines printed, in order

vars == <<opts, files, pc, opt, heap, optind, arg_used, i, ret, res, objs,
          data, stdinOpen, log>>

----------------------------------------------------------------------------
(* Bounds of the model *)

MaxOpts == 2        \* flags on the command line
MaxFiles == 2       \* positional DATA arguments
MaxParamLen == 2    \* characters of a -p argument
MaxInst == 2        \* instances one read_data call adds

----------------------------------------------------------------------------
(* C values *)

NULL == 0

NUL == "\\0"

\* a char* handed to a collaborator: NULL or a string
NullStr == [null |-> TRUE, s |-> <<>>]
Str(s) == [null |-> FALSE, s |-> s]

RECURSIVE StrLen(_)
\* strlen: the symbols before the first NUL of a buffer
StrLen(buf) ==
    IF buf = <<>> \/ Head(buf) = NUL THEN 0 ELSE 1 + StrLen(Tail(buf))

\* the C string that starts at position k of a buffer
CStr(buf, k) ==
    LET rest == SubSeq(buf, k, Len(buf))
    IN  SubSeq(rest, 1, StrLen(rest))

\* strchr(buf, c): the position of the first c in the C string, 0 for NULL
StrChr(buf, c) ==
    LET hits == {k \in 1..StrLen(buf) : buf[k] = c}
    IN  IF hits = {} THEN 0
        ELSE CHOOSE k \in hits : \A j \in hits : k <= j

Digits == <<"0", "1", "2", "3", "4", "5", "6", "7", "8", "9">>

IsDigit(c) == \E d \in 1..10 : Digits[d] = c

DigitVal(c) == (CHOOSE d \in 1..10 : Digits[d] = c) - 1

RECURSIVE AtoiDigits(_, _)
AtoiDigits(s, acc) ==
    IF s = <<>> \/ ~IsDigit(Head(s)) THEN acc
    ELSE AtoiDigits(Tail(s), 10 * acc + DigitVal(Head(s)))

\* atoi: optional sign, then the leading run of decimal digits
Atoi(s) ==
    IF s # <<>> /\ Head(s) = "-" THEN 0 - AtoiDigits(Tail(s), 0)
    ELSE IF s # <<>> /\ Head(s) = "+" THEN AtoiDigits(Tail(s), 0)
    ELSE AtoiDigits(s, 0)

----------------------------------------------------------------------------
(* The heap of option strings *)

\* malloc + strcpy: a new live block holding s; its pointer is Len(h) + 1
Alloc(h, s) == Append(h, [val |-> s, st |-> "live"])

\* free(p): the block is freed (free(NULL) does nothing); a block that
\* was freed before is marked as freed twice
Free(h, p) ==
    IF p = NULL THEN h
    ELSE [h EXCEPT ![p].st = IF @ = "live" THEN "freed" ELSE "freed twice"]

\* free(p) of a block that was freed before: undefined behaviour
DoubleFree(h, p) == p # NULL /\ h[p].st # "live"

\* mystrdup(src): the heap after the copy and the pointer returned
mystrdup(h, src) == [heap |-> Alloc(h, src), ptr |-> Len(h) + 1]

\* learn_option_init: the option set and the heap after it
learn_option_init ==
    LET h1 == mystrdup(<<>>, <<"crfsuite.model">>)
        h2 == mystrdup(h1.heap, <<"lbfgs">>)
        h3 == mystrdup(h2.heap, <<"dyad">>)
    IN  [opt |-> [model |-> h1.ptr, algorithm |-> h2.ptr, type |-> h3.ptr,
                  holdout |-> -1, help |-> 0, params |-> <<>>,
                  paramsArr |-> "NULL"],
         heap |-> h3.heap]

RECURSIVE FreeAll(_, _)
FreeAll(h, ps) ==
    IF ps = <<>> THEN h ELSE FreeAll(Free(h, Head(ps)), Tail(ps))

\* learn_option_finish: frees opt->model, every params[i], and params
learn_option_finish(o, h) ==
    [opt |-> [o EXCEPT !.paramsArr =
                  IF o.paramsArr = "live" THEN "freed" ELSE o.paramsArr],
     heap |-> FreeAll(Free(h, o.model), o.params)]

----------------------------------------------------------------------------
(* The command line *)

RECURSIVE Itoa(_)
\* how a user writes the number n >= 0 on the command line
Itoa(n) ==
    IF n < 10 THEN <<Digits[n + 1]>>
    ELSE Append(Itoa(n \div 10), Digits[(n % 10) + 1])

\* the numbers given to -t
TestNums == {3, 12}

\* the characters of a -p argument
ParamChars == {"a", "="}

\* the arguments given to -p: every string of 1..MaxParamLen characters
ParamArgs == UNION {[1..n -> ParamChars] : n \in 1..MaxParamLen}

\* one flag of the command line with its argument; "?" is a flag that
\* parse_learn_options does not know
OptTokens ==
    [flag : {"m"}, arg : {<<"out.bin">>}]
    \cup [flag : {"t"}, arg : {Itoa(n) : n \in TestNums}]
    \cup [flag : {"h", "?"}, arg : {<<>>}]
    \cup [flag : {"a"}, arg : {<<"sgd">>}]
    \cup [flag : {"f"}, arg : {<<"tri">>}]
    \cup [flag : {"p"}, arg : ParamArgs]

\* the names of the positional arguments; "-" is standard input
FileNames == {"-", "A", "B"}

\* argc after option_parse(++argv, --argc, ...): options, then positionals
argc == Len(opts) + Len(files)

----------------------------------------------------------------------------
(* Results of the collaborators *)

\* crf_create_instance: non-zero on success, 0 on failure
CreateResults == {0, 1}

\* params->set: 0 on success, non-zero when the parameter is rejected
SetResults == {0, -1}

\* trainer->train: 0 on success, otherwise an error code
TrainResults == {0, 1, 2}

Event(op, a, b, c) == [op |-> op, a |-> a, b |-> b, c |-> c]

Emit(e) == log' = Append(log, e)

----------------------------------------------------------------------------
(* Initial state: main_learn after learn_option_init and crf_data_init *)

Init ==
    /\ opts \in UNION {[1..n -> OptTokens] : n \in 0..MaxOpts}
    /\ files \in UNION {[1..n -> FileNames] : n \in 0..MaxFiles}
    /\ pc = "option_parse"
    /\ opt = learn_option_init.opt
    /\ heap = learn_option_init.heap
    /\ optind = 0
    /\ arg_used = 0
    /\ i = 0
    /\ ret = 0
    /\ res = [attrs |-> NULL, labels |-> NULL, trainer |-> NULL]
    /\ objs = [r \in {"attrs", "labels", "trainer", "data"} |->
                  [created |-> IF r = "data" THEN 1 ELSE 0, released |-> 0]]
    /\ data = <<>>
    /\ stdinOpen = TRUE
    /\ log = <<>>

----------------------------------------------------------------------------
(* option_parse and the handlers of parse_learn_options *)

\* option_parse is about to hand the flag f to the handler
AtOption(f) ==
    /\ pc = "option_parse"
    /\ optind < Len(opts)
    /\ opts[optind + 1].flag = f

arg == opts[optind + 1].arg

ParseFrame == UNCHANGED <<opts, files, arg_used, i, ret, res, objs, data,
                          stdinOpen, log>>

\* free(freed); opt->field = mystrdup(arg).  Freeing a block twice is
\* undefined: the allocator aborts the process, or it goes unnoticed.
ReplaceString(freed, field) ==
    LET d == mystrdup(Free(heap, freed), arg)
    IN  \/ /\ heap' = d.heap
           /\ opt' = [opt EXCEPT ![field] = d.ptr]
           /\ optind' = optind + 1
           /\ pc' = pc
        \/ /\ DoubleFree(heap, freed)
           /\ pc' = "crashed"
           /\ UNCHANGED <<heap, opt, optind>>

\* -m, --model
OnModel ==
    /\ AtOption("m")
    /\ ReplaceString(opt.model, "model")
    /\ ParseFrame

\* HoldoutOf with the fold number stored as given (1-based)
HoldoutOf_OneBased(a) == Atoi(a)

\* what -t N stores in opt->holdout
HoldoutOf(a) == Atoi(a) - 1

\* -t, --test
OnTest ==
    /\ AtOption("t")
    /\ opt' = [opt EXCEPT !.holdout = HoldoutOf(arg)]
    /\ optind' = optind + 1
    /\ UNCHANGED <<pc, heap>>
    /\ ParseFrame

\* -h, --help
OnHelp ==
    /\ AtOption("h")
    /\ opt' = [opt EXCEPT !.help = 1]
    /\ optind' = optind + 1
    /\ UNCHANGED <<pc, heap>>
    /\ ParseFrame

\* -a, --algorithm
OnAlgorithm ==
    /\ AtOption("a")
    /\ ReplaceString(opt.algorithm, "algorithm")
    /\ ParseFrame

\* -f, --feature: frees opt->type and stores the copy in opt->model
OnFeature ==
    /\ AtOption("f")
    /\ ReplaceString(opt.type, "model")
    /\ ParseFrame

\* -p, --param
OnParam ==
    /\ AtOption("p")
    /\ LET d == mystrdup(heap, arg)
       IN  /\ heap' = d.heap
           /\ opt' = [opt EXCEPT !.params = Append(@, d.ptr),
                                 !.paramsArr = "live"]
    /\ optind' = optind + 1
    /\ UNCHANGED pc
    /\ ParseFrame

\* a flag no handler matches: the handler returns -1 and so does option_parse
OnUnknown ==
    /\ AtOption("?")
    /\ arg_used' = -1
    /\ pc' = "parsed"
    /\ UNCHANGED <<opts, files, opt, heap, optind, i, ret, res, objs, data,
                   stdinOpen, log>>

\* option_parse reaches the first positional argument and returns its index
OptionParseReturn ==
    /\ pc = "option_parse"
    /\ optind = Len(opts)
    /\ arg_used' = optind
    /\ pc' = "parsed"
    /\ UNCHANGED <<opts, files, opt, heap, optind, i, ret, res, objs, data,
                   stdinOpen, log>>

----------------------------------------------------------------------------
(* main_learn *)

MainFrame == UNCHANGED <<opts, files, optind, arg_used>>

\* lines 159-162: option_parse failed
ParseFailed ==
    /\ pc = "parsed"
    /\ arg_used < 0
    /\ ret' = 1
    /\ pc' = "force_exit"
    /\ UNCHANGED <<opt, heap, i, res, objs, data, stdinOpen, log>>
    /\ MainFrame

\* HelpRequested with the test of the help flag lost
HelpRequested_Never(o) == FALSE

\* the test of line 165
HelpRequested(o) == o.help # 0

\* lines 165-168: show the usage on fpo and leave
ShowHelp ==
    /\ pc = "parsed"
    /\ arg_used >= 0
    /\ HelpRequested(opt)
    /\ Emit(Event("show_usage", "stdout", 0, 0))
    /\ pc' = "force_exit"
    /\ UNCHANGED <<opt, heap, i, ret, res, objs, data, stdinOpen>>
    /\ MainFrame

\* crf_create_instance(kind, &handle) followed by the test of its result:
\* on failure the handle stays NULL, a diagnostic goes to fpe and ret is 1
Create(at, kind, h, next) ==
    /\ pc = at
    /\ \E r \in CreateResults :
          IF r # 0
          THEN /\ res' = [res EXCEPT ![h] = 1]
               /\ objs' = [objs EXCEPT ![h].created = @ + 1]
               /\ Emit(Event("create", kind, h, r))
               /\ ret' = r
               /\ pc' = next
          ELSE /\ log' = log \o <<Event("create", kind, h, r),
                                  Event("stderr", "create", h, 0)>>
               /\ ret' = 1
               /\ pc' = "force_exit"
               /\ UNCHANGED <<res, objs>>
    /\ UNCHANGED <<opt, heap, i, data, stdinOpen>>
    /\ MainFrame

\* lines 171-176
CreateAttrs ==
    /\ arg_used >= 0
    /\ ~HelpRequested(opt)
    /\ Create("parsed", "dictionary", "attrs", "create_labels")

\* lines 177-182
CreateLabels ==
    Create("create_labels", "dictionary", "labels", "create_trainer")

\* lines 185-190; the loop of line 193 then starts at i = 0
CreateTrainer ==
    Create("create_trainer", "train/crf1d/lbfgs", "trainer", "set_params")

\* SplitParam cutting at the last '=' (strrchr) instead of the first
SplitParam_Last(buf) ==
    LET hits == {j \in 1..StrLen(buf) : buf[j] = "="}
        k == IF hits = {} THEN 0
             ELSE CHOOSE j \in hits : \A m \in hits : m <= j
        cut == IF k # 0 THEN [buf EXCEPT ![k] = NUL] ELSE buf
    IN  [buf |-> cut,
         name |-> Str(CStr(cut, 1)),
         value |-> IF k # 0 THEN Str(CStr(cut, k + 1)) ELSE NullStr]

\* lines 199-202: split the argument at its first '=', in place
SplitParam(buf) ==
    LET k == StrChr(buf, "=")
        cut == IF k # 0 THEN [buf EXCEPT ![k] = NUL] ELSE buf
    IN  [buf |-> cut,
         name |-> Str(CStr(cut, 1)),
         value |-> IF k # 0 THEN Str(CStr(cut, k + 1)) ELSE NullStr]

\* SetParam walking the parameter array from its end
SetParam_Backwards ==
    /\ pc = "set_params"
    /\ i < Len(opt.params)
    /\ LET p == opt.params[Len(opt.params) - i]
           sp == SplitParam(heap[p].val)
       IN  /\ heap' = [heap EXCEPT ![p].val = sp.buf]
           /\ \E r \in SetResults :
                 log' = log \o <<Event("params", "trainer", 0, 0),
                                 Event("set", sp.name, sp.value, r),
                                 Event("params_release", 0, 0, 0)>>
    /\ i' = i + 1
    /\ UNCHANGED <<pc, opt, ret, res, objs, data, stdinOpen>>
    /\ MainFrame

\* SetParam freeing the raw parameter once it is applied
SetParam_FreeEarly ==
    /\ pc = "set_params"
    /\ i < Len(opt.params)
    /\ LET p == opt.params[i + 1]
           sp == SplitParam(heap[p].val)
       IN  /\ heap' = Free([heap EXCEPT ![p].val = sp.buf], p)
           /\ \E r \in SetResults :
                 log' = log \o <<Event("params", "trainer", 0, 0),
                                 Event("set", sp.name, sp.value, r),
                                 Event("params_release", 0, 0, 0)>>
    /\ i' = i + 1
    /\ UNCHANGED <<pc, opt, ret, res, objs, data, stdinOpen>>
    /\ MainFrame

\* lines 193-206, one iteration: the result of params->set is not looked at
SetParam ==
    /\ pc = "set_params"
    /\ i < Len(opt.params)
    /\ LET p == opt.params[i + 1]
           sp == SplitParam(heap[p].val)
       IN  /\ heap' = [heap EXCEPT ![p].val = sp.buf]
           /\ \E r \in SetResults :
                 log' = log \o <<Event("params", "trainer", 0, 0),
                                 Event("set", sp.name, sp.value, r),
                                 Event("params_release", 0, 0, 0)>>
    /\ i' = i + 1
    /\ UNCHANGED <<pc, opt, ret, res, objs, data, stdinOpen>>
    /\ MainFrame

\* lines 208-217: the parameter loop ends, the start time is printed and
\* the loop over the data sets starts at i = arg_used
StartReading ==
    /\ pc = "set_params"
    /\ i >= Len(opt.params)
    /\ i' = arg_used
    /\ pc' = "read_data"
    /\ UNCHANGED <<opt, heap, ret, res, objs, data, stdinOpen, log>>
    /\ MainFrame

\* argv[i] in the loop of line 217
FileArg == files[i - arg_used + 1]

\* GroupId with the 1-based number that line 225 prints
GroupId_OneBased(k, used) == k - used + 1

\* the group id handed to read_data (line 226)
GroupId(k, used) == k - used

\* OpenFailed that skips the file it cannot open and goes on
OpenFailed_Skip ==
    /\ pc = "read_data"
    /\ i < argc
    /\ FileArg # "-"
    /\ log' = log \o <<Event("fopen", FileArg, FALSE, 0),
                       Event("stderr", "open", FileArg, 0)>>
    /\ i' = i + 1
    /\ UNCHANGED <<pc, ret, opt, heap, res, objs, data, stdinOpen>>
    /\ MainFrame

\* line 218 with fopen returning NULL, lines 219-223
OpenFailed ==
    /\ pc = "read_data"
    /\ i < argc
    /\ FileArg # "-"
    /\ log' = log \o <<Event("fopen", FileArg, FALSE, 0),
                       Event("stderr", "open", FileArg, 0)>>
    /\ ret' = 1
    /\ pc' = "force_exit"
    /\ UNCHANGED <<opt, heap, i, res, objs, data, stdinOpen>>
    /\ MainFrame

\* read_data(fp, fpo, &data, attrs, labels, group): appends the instances
\* it read, each tagged with group, and returns their number
read_data(d, n, group) == d \o [k \in 1..n |-> group]

\* lines 218-227 with a stream: read it, then close it.  Reading or
\* closing stdin after it was closed is undefined: the process dies, or
\* the read finds nothing.
Ingest ==
    /\ pc = "read_data"
    /\ i < argc
    /\ LET g == GroupId(i, arg_used)
           std == FileArg = "-"
           opened == IF std THEN <<>>
                     ELSE <<Event("fopen", FileArg, TRUE, 0)>>
       IN  \/ /\ std => stdinOpen
              /\ \E n \in 0..MaxInst, err \in BOOLEAN :
                    /\ data' = read_data(data, n, g)
                    /\ log' = log \o opened
                           \o <<Event("read_data", FileArg, g,
                                      [count |-> n, err |-> err]),
                                Event("fclose", FileArg, 0, 0)>>
              /\ stdinOpen' = IF std THEN FALSE ELSE stdinOpen
              /\ i' = i + 1
              /\ pc' = pc
           \/ /\ std /\ ~stdinOpen
              /\ \/ /\ data' = read_data(data, 0, g)
                    /\ log' = log
                           \o <<Event("read_data", FileArg, g,
                                      [count |-> 0, err |-> TRUE]),
                                Event("fclose", FileArg, 0, 0)>>
                    /\ i' = i + 1
                    /\ pc' = pc
                 \/ /\ pc' = "crashed"
                    /\ UNCHANGED <<data, log, i>>
              /\ UNCHANGED stdinOpen
    /\ UNCHANGED <<opt, heap, ret, res, objs>>
    /\ MainFrame

\* Report without the call of set_message_callback
Report_NoCallback ==
    /\ pc = "read_data"
    /\ i >= argc
    /\ log' = log \o <<Event("report", Len(data), 0, 0)>>
    /\ pc' = "train"
    /\ UNCHANGED <<opt, heap, i, ret, res, objs, data, stdinOpen>>
    /\ MainFrame

\* lines 229-241: the statistics are printed and the message callback set
Report ==
    /\ pc = "read_data"
    /\ i >= argc
    /\ log' = log \o <<Event("report", Len(data), 0, 0),
                       Event("set_message_callback", "trainer", 0, 0)>>
    /\ pc' = "train"
    /\ UNCHANGED <<opt, heap, i, ret, res, objs, data, stdinOpen>>
    /\ MainFrame

\* line 244-252: trainer->train is entered
TrainCall ==
    /\ pc = "train"
    /\ Emit(Event("train", Len(data),
                  [model |-> heap[opt.model].val, holdout |-> opt.holdout],
                  data))
    /\ pc' = "training"
    /\ UNCHANGED <<opt, heap, i, ret, res, objs, data, stdinOpen>>
    /\ MainFrame

\* lines 244-260: train returns; ret is its result
TrainReturn ==
    /\ pc = "training"
    /\ \E r \in TrainResults :
          /\ ret' = r
          /\ Emit(Event("train_return", r, 0, 0))
    /\ pc' = "force_exit"
    /\ UNCHANGED <<opt, heap, i, res, objs, data, stdinOpen>>
    /\ MainFrame

\* SAFE_RELEASE without the test for NULL
SAFE_RELEASE_Unchecked(s, h) ==
    [res |-> [s.res EXCEPT ![h] = NULL],
     objs |-> [s.objs EXCEPT ![h].released = @ + 1],
     log |-> Append(s.log, Event("release", h, 0, 0))]

\* SAFE_RELEASE(obj) on the state s = [res, objs, log]
SAFE_RELEASE(s, h) ==
    IF s.res[h] # NULL
    THEN [res |-> [s.res EXCEPT ![h] = NULL],
          objs |-> [s.objs EXCEPT ![h].released = @ + 1],
          log |-> Append(s.log, Event("release", h, 0, 0))]
    ELSE s

\* crf_data_finish(&data) on the state s
crf_data_finish(s) ==
    [s EXCEPT !.objs["data"].released = @ + 1,
              !.log = Append(@, Event("crf_data_finish", 0, 0, 0))]

\* ForceExit releasing the handles in the order they were created
ForceExit_CreationOrder ==
    /\ pc = "force_exit"
    /\ LET s0 == [res |-> res, objs |-> objs, log |-> log]
           s1 == SAFE_RELEASE(s0, "attrs")
           s2 == SAFE_RELEASE(s1, "labels")
           s3 == SAFE_RELEASE(s2, "trainer")
           s4 == crf_data_finish(s3)
           f == learn_option_finish(opt, heap)
       IN  /\ res' = s4.res
           /\ objs' = s4.objs
           /\ log' = Append(s4.log, Event("learn_option_finish", 0, 0, 0))
           /\ opt' = f.opt
           /\ heap' = f.heap
    /\ data' = <<>>
    /\ pc' = "returned"
    /\ UNCHANGED <<i, ret, stdinOpen>>
    /\ MainFrame

\* lines 262-270: force_exit
ForceExit ==
    /\ pc = "force_exit"
    /\ LET s0 == [res |-> res, objs |-> objs, log |-> log]
           s1 == SAFE_RELEASE(s0, "trainer")
           s2 == SAFE_RELEASE(s1, "labels")
           s3 == SAFE_RELEASE(s2, "attrs")
           s4 == crf_data_finish(s3)
           f == learn_option_finish(opt, heap)
       IN  /\ res' = s4.res
           /\ objs' = s4.objs
           /\ log' = Append(s4.log, Event("learn_option_finish", 0, 0, 0))
           /\ opt' = f.opt
           /\ heap' = f.heap
    /\ data' = <<>>
    /\ pc' = "returned"
    /\ UNCHANGED <<i, ret, stdinOpen>>
    /\ MainFrame

----------------------------------------------------------------------------

Next ==
    \/ OnModel
    \/ OnTest
    \/ OnHelp
    \/ OnAlgorithm
    \/ OnFeature
    \/ OnParam
    \/ OnUnknown
    \/ OptionParseReturn
    \/ ParseFailed
    \/ ShowHelp
    \/ CreateAttrs
    \/ CreateLabels
    \/ CreateTrainer
    \/ SetParam
    \/ StartReading
    \/ OpenFailed
    \/ Ingest
    \/ Report
    \/ TrainCall
    \/ TrainReturn
    \/ ForceExit

Spec == Init /\ [][Next]_vars

----------------------------------------------------------------------------
(* Reading the log *)

Handles == {"attrs", "labels", "trainer"}

\* the positions of the log that hold a call of one of the operations ops
Calls(ops) == {k \in 1..Len(log) : log[k].op \in ops}

Returned == pc = "returned"

\* the run ended in Done: train was called and returned 0
Done == \E k \in Calls({"train_return"}) : log[k].a = 0

\* the run ended in HelpRequested: the usage was shown
HelpShown == Calls({"show_usage"}) # {}

\* nothing after position k of the log is a call of one of ops
NothingAfter(k, ops) == \A j \in Calls(ops) : j <= k

----------------------------------------------------------------------------
(* C1 *)

\* C1: whenever main_learn has returned, each of the attribute dictionary,
\* the label dictionary and the trainer that was created has been released
\* exactly once, one that was never created has never been released, and
\* the corpus has been released exactly once; at no moment of the run has
\* anything been released more often than it was created.
C1_ReleasedExactlyOnce ==
    /\ \A h \in Handles \cup {"data"} :
          /\ objs[h].created <= 1
          /\ objs[h].released <= objs[h].created
    /\ Returned =>
          /\ \A h \in Handles :
                /\ objs[h].released = objs[h].created
                /\ Cardinality({k \in Calls({"release"}) : log[k].a = h})
                      = objs[h].created
                /\ res[h] = NULL
          /\ objs["data"].released = 1
          /\ Cardinality(Calls({"crf_data_finish"})) = 1

\* C1 witness: a run that failed at the creation of the trainer has
\* returned, with both dictionaries released and no trainer released
C1_Witness ==
    /\ Returned
    /\ objs["attrs"].released = 1
    /\ objs["labels"].released = 1
    /\ objs["trainer"].created = 0
    /\ objs["data"].released = 1

----------------------------------------------------------------------------
(* C2 *)

\* C2: the value main_learn returns is 0 exactly when the run ended in
\* Done or HelpRequested, and is exactly 1 on every failure, whatever
\* error code train returned.
C2_ExitCode ==
    Returned =>
        /\ ret = 0 <=> (Done \/ HelpShown)
        /\ ~(Done \/ HelpShown) => ret = 1

----------------------------------------------------------------------------
(* C3 *)

\* C3: once params->set has rejected a parameter, no later parameter is
\* applied, no file is opened or read, train is not called, and main_learn
\* returns non-zero.
C3_RejectedParamAborts ==
    \A k \in Calls({"set"}) :
        log[k].c # 0 =>
            /\ NothingAfter(k, {"set", "fopen", "read_data", "train"})
            /\ Returned => ret # 0

----------------------------------------------------------------------------
(* C4 *)

\* the read_data calls made before position k of the log, in order
ReadsBefore(k) ==
    SelectSeq(SubSeq(log, 1, k - 1), LAMBDA e : e.op = "read_data")

\* C4: when no positional DATA argument is given, exactly one read_data
\* call, on standard input with group id 0, is made before train is called.
C4_NoDataReadsStdin ==
    \A k \in Calls({"train"}) :
        files = <<>> =>
            /\ Len(ReadsBefore(k)) = 1
            /\ ReadsBefore(k)[1].a = "-"
            /\ ReadsBefore(k)[1].b = 0

----------------------------------------------------------------------------
(* C5 *)

\* the positions of the log where fopen returned NULL
FailedOpens == {k \in Calls({"fopen"}) : ~log[k].b}

\* C5: when opening a positional file has failed, that file is the next
\* one in listing order after those already read, no file is opened or
\* read afterwards, train is never called, the next line on the error
\* stream names the file, and once main_learn has returned its value is 1
\* and the dictionaries and the trainer are released.
C5_OpenFailureAborts ==
    \A k \in FailedOpens :
        /\ log[k].a = files[Len(ReadsBefore(k)) + 1]
        /\ NothingAfter(k, {"fopen", "read_data", "train"})
        /\ k < Len(log)
        /\ log[k + 1].op = "stderr"
        /\ log[k + 1].a = "open"
        /\ log[k + 1].b = log[k].a
        /\ Returned =>
              /\ ret = 1
              /\ \A h \in Handles :
                    /\ res[h] = NULL
                    /\ objs[h].created = 1
                    /\ objs[h].released = 1

\* C5 witness: main_learn has returned after the second file could not be
\* opened, the first one having been read with at least one instance
C5_Witness ==
    /\ Returned
    /\ \E k \in FailedOpens :
          /\ Len(ReadsBefore(k)) = 1
          /\ ReadsBefore(k)[1].c.count > 0
          /\ files[1] # "-"
          /\ log[k].a # files[1]

----------------------------------------------------------------------------
(* C6 *)

\* C6: once read_data has reported a read error for a named file, train is
\* never called and main_learn returns non-zero.
C6_ReadErrorAborts ==
    \A k \in Calls({"read_data"}) :
        (log[k].a # "-" /\ log[k].c.err) =>
            /\ NothingAfter(k, {"train"})
            /\ Returned => ret # 0

----------------------------------------------------------------------------
(* C7 *)

\* option parsing has set the help flag
HelpFlagSet == opt.help = 1

\* with the help flag set, main_learn creates nothing, applies no
\* parameter, opens and reads no file and does not train
HelpCallsNothing ==
    HelpFlagSet =>
        Calls({"create", "params", "set", "fopen", "read_data", "train"}) = {}

\* C7 as claimed: whenever option parsing has set the help flag, main_learn
\* calls none of the collaborators, and it returns 0 with the usage shown,
\* whatever else is on the command line.
C7_HelpAlwaysShown ==
    /\ HelpCallsNothing
    /\ (HelpFlagSet /\ Returned) => (ret = 0 /\ HelpShown)

\* C7 as amended: whenever option parsing has set the help flag, main_learn
\* calls none of the collaborators; when option_parse also succeeded
\* (arg_used >= 0), main_learn returns 0 with the usage shown.
C7_HelpShownAfterParse ==
    /\ HelpCallsNothing
    /\ (HelpFlagSet /\ Returned /\ arg_used >= 0) =>
          (ret = 0 /\ HelpShown)

\* C7 witness: main_learn has returned from a run with -h, another flag
\* and a positional argument
C7_Witness ==
    /\ Returned
    /\ HelpFlagSet
    /\ arg_used >= 0
    /\ HelpShown
    /\ \E j \in 1..Len(opts) : opts[j].flag # "h"
    /\ files # <<>>

----------------------------------------------------------------------------
(* C8 *)

RECURSIVE SumCounts(_)
SumCounts(reads) ==
    IF reads = <<>> THEN 0 ELSE Head(reads).c.count + SumCounts(Tail(reads))

\* C8: when train is called, the read_data calls made so far are one per
\* positional argument, in listing order, the k-th (from 0) with group id
\* k; the instance count reported and the one passed to train are the sum
\* of the counts the reader returned, and the corpus holds, for each file,
\* that many instances of its group.
C8_GroupsAndCount ==
    \A k \in Calls({"train"}) :
        LET reads == ReadsBefore(k)
        IN  /\ Len(reads) = Len(files)
            /\ \A j \in 1..Len(reads) :
                  /\ reads[j].a = files[j]
                  /\ reads[j].b = j - 1
                  /\ Cardinality({x \in 1..Len(log[k].c) :
                                     log[k].c[x] = j - 1})
                        = reads[j].c.count
            /\ log[k].a = SumCounts(reads)
            /\ \A r \in Calls({"report"}) : log[r].a = SumCounts(reads)

\* C8 witness: train is called after two files were read, the first with
\* two instances and the second with one
C8_Witness ==
    \E k \in Calls({"train"}) :
        /\ Len(ReadsBefore(k)) = 2
        /\ ReadsBefore(k)[1].c.count = 2
        /\ ReadsBefore(k)[2].c.count = 1
        /\ log[k].a = 3

----------------------------------------------------------------------------
(* C9 *)

\* the arguments of the -p flags, in the order given
RawParams ==
    LET ps == SelectSeq(opts, LAMBDA t : t.flag = "p")
    IN  [j \in 1..Len(ps) |-> ps[j].arg]

HasEq(s) == \E j \in 1..Len(s) : s[j] = "="

\* (name, value) is s cut at its first '=': s = name = value with no '='
\* in name, or s has no '=' and is the name, the value being null
IsFirstSplit(s, name, value) ==
    IF HasEq(s)
    THEN /\ ~name.null
         /\ ~value.null
         /\ ~HasEq(name.s)
         /\ s = name.s \o <<"=">> \o value.s
    ELSE /\ name = Str(s)
         /\ value = NullStr

\* the params->set calls made so far, in order
SetCalls == SelectSeq(log, LAMBDA e : e.op = "set")

\* C9: the j-th params->set call gets the j-th -p argument cut at its
\* first '=': the name is what precedes it, the value all that follows it;
\* without '=' the name is the argument and the value is null, which is not
\* the empty string.
C9_SplitAtFirstEq ==
    /\ Len(SetCalls) <= Len(RawParams)
    /\ \A j \in 1..Len(SetCalls) :
          IsFirstSplit(RawParams[j], SetCalls[j].a, SetCalls[j].b)
    /\ NullStr # Str(<<>>)

\* C9 witness: a parameter was set whose value holds a further '=', and
\* one was set with a null value
C9_Witness ==
    /\ \E j \in 1..Len(SetCalls) : SetCalls[j].b = Str(<<"=">>)
    /\ \E j \in 1..Len(SetCalls) : SetCalls[j].b = NullStr

----------------------------------------------------------------------------
(* C10 *)

\* the arguments of the -t flags, in the order given
TestArgs ==
    LET ts == SelectSeq(opts, LAMBDA t : t.flag = "t")
    IN  [j \in 1..Len(ts) |-> ts[j].arg]

\* the number a -t argument was written from
NumberOf(a) == CHOOSE n \in TestNums : Itoa(n) = a

\* C10: the holdout index passed to train is N-1 for the N of the last -t
\* flag, and -1 when there is no -t flag, whatever the other flags are.
C10_Holdout ==
    \A k \in Calls({"train"}) :
        log[k].b.holdout =
            IF TestArgs = <<>> THEN -1
            ELSE NumberOf(TestArgs[Len(TestArgs)]) - 1

\* C10 witness: train is called with holdout 11 after -t 3 -t 12
C10_Witness ==
    \E k \in Calls({"train"}) :
        /\ Len(TestArgs) = 2
        /\ TestArgs[1] = Itoa(3)
        /\ log[k].b.holdout = 11

----------------------------------------------------------------------------
(* C11 *)

\* the arguments of the -m flags, in the order given
ModelArgs ==
    LET ms == SelectSeq(opts, LAMBDA t : t.flag = "m")
    IN  [j \in 1..Len(ms) |-> ms[j].arg]

\* C11: the output path passed to train is the argument of the last -m
\* flag, or "crfsuite.model" when there is no -m flag, whatever the other
\* flags (-t, -a, -f, -p) are.
C11_ModelPath ==
    \A k \in Calls({"train"}) :
        log[k].b.model =
            IF ModelArgs = <<>> THEN <<"crfsuite.model">>
            ELSE ModelArgs[Len(ModelArgs)]

----------------------------------------------------------------------------
(* C12 *)

\* C12: when main_learn has returned, every string the option set owned
\* (the defaults, every replacement made while parsing, every raw
\* parameter) and the parameter array have been freed.
C12_AllOptionStringsFreed ==
    Returned =>
        /\ \A p \in 1..Len(heap) : heap[p].st # "live"
        /\ opt.paramsArr # "live"

----------------------------------------------------------------------------
(* C13 *)

\* the pointers the next step of the program hands to free
NextFreed ==
    IF AtOption("m") THEN {opt.model}
    ELSE IF AtOption("a") THEN {opt.algorithm}
    ELSE IF AtOption("f") THEN {opt.type}
    ELSE IF pc = "force_exit"
         THEN {opt.model} \cup {opt.params[j] : j \in 1..Len(opt.params)}
    ELSE {}

\* the pointers the next step of the program reads through
NextRead ==
    IF pc = "set_params" /\ i < Len(opt.params) THEN {opt.params[i + 1]}
    ELSE IF pc = "train" THEN {opt.model}
    ELSE {}

\* C13: no option string is freed more than once, and a field of the
\* option set that is about to be freed or read does not refer to a string
\* that was freed already.
C13_NoDoubleFree ==
    /\ \A p \in 1..Len(heap) : heap[p].st # "freed twice"
    /\ \A p \in NextFreed \cup NextRead : heap[p].st = "live"

----------------------------------------------------------------------------
(* C14 *)

\* C14: when main_learn has returned from a run that ended in Failed
\* (neither Done nor HelpRequested), it has written at least one
\* diagnostic line to the error stream.
C14_FailureDiagnosed ==
    (Returned /\ ~(Done \/ HelpShown)) => Calls({"stderr"}) # {}

----------------------------------------------------------------------------
(* C15 *)

\* the position of the log where the trainer was created, 0 if it was not
TrainerCreated ==
    LET made == {k \in Calls({"create"}) : log[k].b = "trainer" /\ log[k].c # 0}
    IN  IF made = {} THEN 0 ELSE CHOOSE k \in made : TRUE

\* the name a -p argument carries: what precedes its first '='
NameOf(s) ==
    LET eqs == {j \in 1..Len(s) : s[j] = "="}
    IN  IF eqs = {} THEN s
        ELSE SubSeq(s, 1, (CHOOSE j \in eqs : \A m \in eqs : j <= m) - 1)

\* C15: the params->set calls are made for the -p arguments in the order
\* given, one call each; every one of them comes after the trainer was
\* created, and once a file is opened or read, the statistics are reported
\* or train is called, all of them have been made and none follows.
C15_ParamsInOrder ==
    /\ Len(SetCalls) <= Len(RawParams)
    /\ \A j \in 1..Len(SetCalls) : SetCalls[j].a = Str(NameOf(RawParams[j]))
    /\ \A k \in Calls({"set"}) : TrainerCreated # 0 /\ TrainerCreated < k
    /\ \A k \in Calls({"fopen", "read_data", "report", "train"}) :
          /\ \A j \in Calls({"set"}) : j < k
          /\ Len(SetCalls) = Len(RawParams)

\* C15 witness: train is called after two parameters with different names
\* were set
C15_Witness ==
    /\ Calls({"train"}) # {}
    /\ Len(SetCalls) = 2
    /\ SetCalls[1].a # SetCalls[2].a

----------------------------------------------------------------------------
(* C16 *)

\* the position of the log where handle h was created (0: not created)
CreatedAt(h) ==
    LET made == {k \in Calls({"create"}) : log[k].b = h /\ log[k].c # 0}
    IN  IF made = {} THEN 0 ELSE CHOOSE k \in made : TRUE

\* the position of the log where handle h was released (0: not released)
ReleasedAt(h) ==
    LET gone == {k \in Calls({"release"}) : log[k].a = h}
    IN  IF gone = {} THEN 0 ELSE CHOOSE k \in gone : TRUE

\* C16: the handles are created in the order attribute dictionary, label
\* dictionary, trainer; when main_learn has returned from a run that had
\* created all three, they were released in the order trainer, label
\* dictionary, attribute dictionary, and crf_data_finish and then
\* learn_option_finish came after these releases.
C16_ReleaseOrder ==
    /\ CreatedAt("labels") # 0 => 
          (CreatedAt("attrs") # 0 /\ CreatedAt("attrs") < CreatedAt("labels"))
    /\ CreatedAt("trainer") # 0 => 
          (CreatedAt("labels") # 0 /\ CreatedAt("labels") < CreatedAt("trainer"))
    /\ (Returned /\ CreatedAt("trainer") # 0) =>
          /\ CreatedAt("trainer") < ReleasedAt("trainer")
          /\ ReleasedAt("trainer") < ReleasedAt("labels")
          /\ ReleasedAt("labels") < ReleasedAt("attrs")
          /\ \A k \in Calls({"crf_data_finish"}) :
                /\ ReleasedAt("attrs") < k
                /\ \A j \in Calls({"learn_option_finish"}) : k < j
          /\ Calls({"crf_data_finish"}) # {}
          /\ Calls({"learn_option_finish"}) # {}

\* C16 witness: main_learn has returned after a failed training, all three
\* handles having been released
C16_Witness ==
    /\ Returned
    /\ ret # 0
    /\ Calls({"train_return"}) # {}
    /\ \A h \in Handles : ReleasedAt(h) # 0

----------------------------------------------------------------------------
(* C17 *)

\* C17: train is called at most once; when it is called every positional
\* argument has been read and the message callback has been set on the
\* trainer; while the call is in progress the dictionaries, the trainer and
\* the corpus are unreleased, and the next thing main_learn does is to
\* take the result of train: no file is opened or read and nothing is
\* released between the call and its return, nor is a file read after it.
C17_TrainOnceAfterIngestion ==
    /\ Cardinality(Calls({"train"})) <= 1
    /\ \A k \in Calls({"train"}) :
          /\ Len(ReadsBefore(k)) = Len(files)
          /\ \E j \in Calls({"set_message_callback"}) : j < k
          /\ NothingAfter(k, {"fopen", "read_data", "fclose", "train"})
          /\ k < Len(log) => log[k + 1].op = "train_return"
          /\ \A j \in Calls({"release", "crf_data_finish"}) : k < j
    /\ pc = "training" =>
          /\ log[Len(log)].op = "train"
          /\ \A h \in Handles : res[h] # NULL /\ objs[h].released = 0
          /\ objs["data"].released = 0

\* C17 witness: the train call is in progress after two files were read
C17_Witness ==
    /\ pc = "training"
    /\ Len(files) = 2
    /\ \A j \in 1..2 : files[j] # "-"
    /\ Cardinality(Calls({"read_data"})) = 2

----------------------------------------------------------------------------
(* C18 *)

\* a step of main_learn after option_parse has returned and before
\* learn_option_finish runs
AfterParsingStep == pc # "option_parse" /\ pc' # "returned"

\* buffer new is buffer old with its first '=' overwritten by NUL
FirstEqCut(old, new) ==
    \E k \in 1..Len(old) :
        /\ old[k] = "="
        /\ \A j \in 1..(k - 1) : old[j] # "=" /\ old[j] # NUL
        /\ new = [old EXCEPT ![k] = NUL]

\* C18 as claimed: after option_parse has returned and until
\* learn_option_finish runs, no step changes a field of the option set or
\* the contents of a string it owns.
C18_OptionSetFrozen ==
    [][AfterParsingStep => (opt' = opt /\ heap' = heap)]_vars

\* C18 as amended: after option_parse has returned and until
\* learn_option_finish runs, no step changes a field of the option set and
\* no string it owns is freed or allocated; the only change to the contents
\* of a string is that applying a raw parameter overwrites the first '=' of
\* that parameter's string with NUL.
C18_OptionSetFrozenButSplit ==
    [][AfterParsingStep =>
          /\ opt' = opt
          /\ Len(heap') = Len(heap)
          /\ \A p \in 1..Len(heap) :
                /\ heap'[p].st = heap[p].st
                /\ \/ heap'[p].val = heap[p].val
                   \/ /\ pc = "set_params"
                      /\ i < Len(opt.params)
                      /\ p = opt.params[i + 1]
                      /\ FirstEqCut(heap[p].val, heap'[p].val)]_vars

\* C18 witness: train is in progress and a raw parameter string has had
\* its '=' overwritten
C18_Witness ==
    /\ pc = "training"
    /\ \E j \in 1..Len(opt.params) :
          /\ heap[opt.params[j]].val # RawParams[j]
          /\ heap[opt.params[j]].st = "live"

----------------------------------------------------------------------------
(* C19 *)

\* the positions of the log where standard input was closed
StdinCloses == {k \in Calls({"fclose"}) : log[k].a = "-"}

\* C19: a stream is open when it is read and is closed at most once:
\* standard input is not handed to read_data after it was closed, is not
\* about to be, and is closed at most once; a stream opened by fopen is
\* read and closed before the next file is opened.
C19_StreamsOpenWhenRead ==
    /\ \A k \in Calls({"read_data"}) :
          log[k].a = "-" => \A c \in StdinCloses : k < c
    /\ Cardinality(StdinCloses) <= 1
    /\ (pc = "read_data" /\ i < argc /\ FileArg = "-") => stdinOpen
    /\ \A k \in Calls({"fopen"}) :
          (log[k].b /\ k + 2 <= Len(log)) =>
              /\ log[k + 1].op = "read_data"
              /\ log[k + 2].op = "fclose"
              /\ log[k + 2].a = log[k].a

====
